---- MODULE Spec2Model ----
(***************************************************************************)
(* Model of src/main.py: the FastAPI handlers of the "idealizadores"       *)
(* service over a SQLite file (banco.db) with two tables, idealizadores    *)
(* and habilidades.                                                        *)
(*                                                                         *)
(* Every handler invocation is a request slot r with its own sqlite3       *)
(* connection.  One action is one access of a handler to the shared store  *)
(* (one cursor.execute or one commit) together with the local code around  *)
(* it, so that requests interleave at statement granularity.               *)
(*                                                                         *)
(* sqlite3 (Python's default, isolation_level = "") opens a transaction    *)
(* implicitly before the first INSERT/UPDATE/DELETE of a connection; the   *)
(* statement takes the database write lock, which the connection keeps     *)
(* until commit, rollback or close.  Uncommitted changes live in the       *)
(* writer's own view (tx) and other connections read the committed tables. *)
(* A connection that a handler leaves open keeps its lock until the        *)
(* interpreter collects it (liberar).  sqlite3.connect's default timeout   *)
(* (5 s) outlasts a running handler, so a writer waits for a running       *)
(* holder, but a leaked holder can outlast it: the statement then raises   *)
(* OperationalError ("database is locked").                                *)
(*                                                                         *)
(* A statement of a multi-statement transaction (the INSERTs of            *)
(* salvar_habilidades, the DELETEs of excluir_perfil) may also fail in the *)
(* store (falha).  The schema lives in database.py: the UNIQUE constraint  *)
(* on email and the assignment of ids follow the specification.            *)
(*                                                                         *)
(* Spec is the whole service.  SpecPerfil, SpecHabilidades and             *)
(* SpecEscritas are the same actions restricted to the handlers of one     *)
(* table, or to the writers, which keeps each state space checkable.       *)
(***************************************************************************)
EXTENDS Integers, Sequences, FiniteSets, TLC

\* ---------------------------------------------------------------- bounds
MaxReqs == 2      \* request slots handled concurrently
MaxId == 2        \* largest id the store assigns / a request names

\* bcrypt hashes at most this many bytes of a password
BcryptMax == 72

Reqs == 1..MaxReqs
Ids == 1..MaxId

None == "<None>"

\* ---------------------------------------------------------------- inputs
\* passwords as byte sequences
P1 == <<112>>
P2 == <<113>>
Long72 == [i \in 1..BcryptMax |-> 97]
Long73 == Long72 \o <<98>>
Senhas == {P1, P2, Long72, Long73}
Salts == {"s1", "s2"}
Emails == {"a@x", "b@x"}

CamposPerfil ==
    {"nome", "telefone", "github", "linkedin", "funcao", "pais", "cidade",
     "sobre_mim", "email"}

\* request body of POST /cadastro
Idealizador(nome, email, senha) ==
    [nome |-> nome, telefone |-> None, email |-> email, senha |-> senha,
     github |-> None, linkedin |-> None, funcao |-> None, pais |-> None,
     cidade |-> "Rio", sobre_mim |-> None]

Cadastros ==
    {Idealizador("Ana", "a@x", P1), Idealizador("Bia", "b@x", Long72),
     Idealizador("Eva", "a@x", Long73)}

\* request body of PUT /perfil/{id}: every field defaults to None
AtualizacaoPerfil == [c \in CamposPerfil |-> None]

Com(dados, campo, valor) == [dados EXCEPT ![campo] = valor]

Atualizacoes ==
    {AtualizacaoPerfil,
     Com(AtualizacaoPerfil, "cidade", "SP"),
     Com(Com(AtualizacaoPerfil, "email", "a@x"), "nome", "Zed")}

\* request bodies of POST /habilidades/{id}: empty, single, duplicated, ordered
Listas == {<<>>, <<"py">>, <<"py", "py">>, <<"js", "py">>}

\* ---------------------------------------------------------------- state
VARIABLES
    idealizadores,   \* committed rows of table idealizadores (a set of records)
    habilidades,     \* committed rows of table habilidades, in rowid order
    trava,           \* request whose connection holds the write lock, 0 if none
    tx,              \* the lock holder's uncommitted view of both tables
    pc,              \* position of each request slot in its handler
    conexao,         \* state of each request's connection
    loc,             \* each request's arguments and local variables
    resultado,       \* each finished request's response
    senhaDe          \* history: the password each committed row was registered with

vars ==
    <<idealizadores, habilidades, trava, tx, pc, conexao, loc, resultado, senhaDe>>

NoTx == [ideal |-> {}, habil |-> <<>>]

SemPerfil ==
    [id |-> 0, nome |-> "", telefone |-> "", email |-> "", github |-> "",
     linkedin |-> "", funcao |-> "", pais |-> "", cidade |-> "", sobre_mim |-> ""]

SemLoc ==
    [op |-> "", id |-> 0, email |-> "", senha |-> <<>>, dados |-> AtualizacaoPerfil,
     lista |-> <<>>, i |-> 0, perfil |-> SemPerfil]

Resposta(status, detail) ==
    [status |-> status, detail |-> detail, id |-> 0, nome |-> "",
     perfil |-> SemPerfil, habilidades |-> <<>>]

SemResposta == Resposta(0, "")

\* ---------------------------------------------------------------- bcrypt
\* the installed bcrypt either truncates a password of more than 72 bytes
\* (bcrypt < 5) or raises ValueError for it (bcrypt >= 5); the store outlives
\* the library, so the outcome is chosen at each call (trunca)
HashpwFalha(senha, trunca) == ~trunca /\ Len(senha) > BcryptMax

Chave(senha) ==
    IF Len(senha) > BcryptMax THEN SubSeq(senha, 1, BcryptMax) ELSE senha

\* the hash embeds its salt; the digest is modelled as collision-free in the
\* bytes bcrypt reads
Hashpw(senha, salt) == [salt |-> salt, chave |-> Chave(senha)]

Checkpw(senha, hash) == Hashpw(senha, hash.salt) = hash

\* ---------------------------------------------------------------- storage
PorEmail(tab, email) == {u \in tab : u.email = email}

PorId(tab, id) == {u \in tab : u.id = id}

Primeiro(linhas) == CHOOSE u \in linhas : \A v \in linhas : u.id <= v.id

RECURSIVE Maior(_)
Maior(S) == IF S = {} THEN 0 ELSE LET x == CHOOSE y \in S : TRUE
                                      m == Maior(S \ {x})
                                  IN  IF x > m THEN x ELSE m

\* id the store assigns to an inserted row
NovoId(tab) == Maior({u.id : u \in tab}) + 1

\* UNIQUE(email) as the store checks it for an inserted row
EmailDuplicado(tab, email) == PorEmail(tab, email) # {}

LinhaNova(tab, idealizador, hash) ==
    [id |-> NovoId(tab), nome |-> idealizador.nome,
     telefone |-> idealizador.telefone, email |-> idealizador.email,
     senha |-> hash, github |-> idealizador.github,
     linkedin |-> idealizador.linkedin, funcao |-> idealizador.funcao,
     pais |-> idealizador.pais, cidade |-> idealizador.cidade,
     sobre_mim |-> idealizador.sobre_mim]

\* SELECT nome FROM habilidades WHERE idealizador_id = ?
NomesDe(hab, id) ==
    LET linhas == SelectSeq(hab, LAMBDA h : h.idealizador_id = id)
    IN  [k \in 1..Len(linhas) |-> linhas[k].nome]

\* mutant of SemHabilidadesDe: the DELETE without its WHERE clause
SemHabilidadesDe_SemWhere(hab, id) == SelectSeq(hab, LAMBDA h : FALSE)

\* DELETE FROM habilidades WHERE idealizador_id = ?
SemHabilidadesDe(hab, id) == SelectSeq(hab, LAMBDA h : h.idealizador_id # id)

\* mutant of ComHabilidade: the new row is stored before the older rows
ComHabilidade_Antes(hab, id, nome) == <<[idealizador_id |-> id, nome |-> nome]>> \o hab

\* INSERT INTO habilidades (idealizador_id, nome)
ComHabilidade(hab, id, nome) == Append(hab, [idealizador_id |-> id, nome |-> nome])

\* the write lock is free for r
Livre(r) == trava = 0

\* the lock is held by a connection its handler left open: the busy timeout expires
Expira(r) == trava \notin {0, r} /\ pc[trava] = "done"

Init ==
    /\ idealizadores = {}
    /\ habilidades = <<>>
    /\ trava = 0
    /\ tx = NoTx
    /\ pc = [r \in Reqs |-> "idle"]
    /\ conexao = [r \in Reqs |-> "nenhuma"]
    /\ loc = [r \in Reqs |-> SemLoc]
    /\ resultado = [r \in Reqs |-> SemResposta]
    /\ senhaDe = [id \in Ids |-> <<>>]

\* a handler returns or raises: pc, connection and response of slot r
Fim(r, con, resp) ==
    /\ pc' = [pc EXCEPT ![r] = "done"]
    /\ conexao' = [conexao EXCEPT ![r] = con]
    /\ resultado' = [resultado EXCEPT ![r] = resp]

Segue(r, passo) ==
    /\ pc' = [pc EXCEPT ![r] = passo]
    /\ conexao' = [conexao EXCEPT ![r] = "aberta"]
    /\ UNCHANGED resultado

\* ---------------------------------------------------------------- cadastrar
\* POST /cadastro up to the INSERT
cadastrar(r) ==
    /\ pc[r] = "idle"
    /\ \E idealizador \in Cadastros, salt \in Salts, trunca \in BOOLEAN :
        /\ loc' = [loc EXCEPT ![r] = [SemLoc EXCEPT !.op = "cadastrar",
                                                    !.email = idealizador.email,
                                                    !.senha = idealizador.senha]]
        /\ IF HashpwFalha(idealizador.senha, trunca)
           THEN \* ValueError at line 41, before the try: nothing closes the connection
                /\ Fim(r, "aberta", Resposta(500, "ValueError"))
                /\ UNCHANGED <<trava, tx>>
           ELSE IF Expira(r)
           THEN \* OperationalError is not an IntegrityError: finally closes
                /\ Fim(r, "fechada", Resposta(500, "OperationalError"))
                /\ UNCHANGED <<trava, tx>>
           ELSE /\ Livre(r)
                /\ IF EmailDuplicado(idealizadores, idealizador.email)
                   THEN /\ Fim(r, "fechada", Resposta(400, "E-mail ja cadastrado."))
                        /\ UNCHANGED <<trava, tx>>
                   ELSE /\ NovoId(idealizadores) <= MaxId
                        /\ trava' = r
                        /\ tx' = [ideal |-> idealizadores \cup
                                     {LinhaNova(idealizadores, idealizador,
                                                Hashpw(idealizador.senha, salt))},
                                  habil |-> habilidades]
                        /\ Segue(r, "cad_commit")
    /\ UNCHANGED <<idealizadores, habilidades, senhaDe>>

\* conexao.commit(), then finally: conexao.close()
cadastrar_commit(r) ==
    /\ pc[r] = "cad_commit"
    /\ idealizadores' = tx.ideal
    /\ habilidades' = tx.habil
    /\ trava' = 0
    /\ tx' = NoTx
    /\ Fim(r, "fechada", Resposta(200, "Idealizador cadastrado com sucesso!"))
    /\ senhaDe' = [senhaDe EXCEPT ![NovoId(idealizadores)] = loc[r].senha]
    /\ UNCHANGED <<loc>>

\* ---------------------------------------------------------------- login
login(r) ==
    /\ pc[r] = "idle"
    /\ \E email \in Emails, senha \in Senhas, trunca \in BOOLEAN :
        LET achados == PorEmail(idealizadores, email)
        IN  /\ loc' = [loc EXCEPT ![r] = [SemLoc EXCEPT !.op = "login",
                                                        !.email = email,
                                                        !.senha = senha]]
            /\ IF achados = {}
               THEN Fim(r, "fechada", Resposta(404, "Usuario nao encontrado"))
               ELSE LET u == Primeiro(achados)
                    IN  IF HashpwFalha(senha, trunca)
                        THEN Fim(r, "fechada", Resposta(500, "ValueError"))
                        ELSE IF Checkpw(senha, u.senha)
                        THEN Fim(r, "fechada",
                                 [Resposta(200, "Bem-vindo") EXCEPT !.id = u.id,
                                                                     !.nome = u.nome])
                        ELSE Fim(r, "fechada", Resposta(401, "Senha incorreta"))
    /\ UNCHANGED <<idealizadores, habilidades, trava, tx, senhaDe>>

\* ---------------------------------------------------------------- obter_perfil
Ou(v) == IF v = None THEN "" ELSE v

\* resultado[k] or "" over the selected columns (senha is not selected)
Projecao(u) ==
    [id |-> u.id, nome |-> Ou(u.nome), telefone |-> Ou(u.telefone),
     email |-> Ou(u.email), github |-> Ou(u.github), linkedin |-> Ou(u.linkedin),
     funcao |-> Ou(u.funcao), pais |-> Ou(u.pais), cidade |-> Ou(u.cidade),
     sobre_mim |-> Ou(u.sobre_mim)]

\* GET /perfil/{id}: the SELECT on idealizadores
obter_perfil(r) ==
    /\ pc[r] = "idle"
    /\ \E id \in Ids :
        LET achados == PorId(idealizadores, id)
        IN  IF achados = {}
            THEN /\ loc' = [loc EXCEPT ![r] = [SemLoc EXCEPT !.op = "obter_perfil",
                                                             !.id = id]]
                 /\ Fim(r, "fechada", Resposta(404, "Perfil nao encontrado"))
            ELSE /\ loc' = [loc EXCEPT ![r] =
                               [SemLoc EXCEPT !.op = "obter_perfil", !.id = id,
                                              !.perfil = Projecao(Primeiro(achados))]]
                 /\ Segue(r, "obter_habilidades")
    /\ UNCHANGED <<idealizadores, habilidades, trava, tx, senhaDe>>

\* GET /perfil/{id}: the SELECT on habilidades, close, return
obter_perfil_habilidades(r) ==
    /\ pc[r] = "obter_habilidades"
    /\ Fim(r, "fechada",
           [Resposta(200, "") EXCEPT !.perfil = loc[r].perfil,
                                     !.habilidades = NomesDe(habilidades, loc[r].id)])
    /\ UNCHANGED <<idealizadores, habilidades, trava, tx, loc, senhaDe>>

\* ---------------------------------------------------------------- atualizar_perfil
\* the fields of dados that are not None
Presentes(dados) == {c \in CamposPerfil : dados[c] # None}

\* mutant of Atualizada: the UPDATE without its WHERE clause
Atualizada_SemWhere(tab, id, dados) ==
    {[c \in DOMAIN u |-> IF c \in Presentes(dados) THEN dados[c] ELSE u[c]]
       : u \in tab}

\* UPDATE idealizadores SET <present fields> WHERE id = ?
Atualizada(tab, id, dados) ==
    {IF u.id = id
     THEN [c \in DOMAIN u |-> IF c \in Presentes(dados) THEN dados[c] ELSE u[c]]
     ELSE u : u \in tab}

\* mutant of UpdateViolaUnique: the email column without its UNIQUE constraint
UpdateViolaUnique_Nunca(tab, id, dados) == FALSE

\* UNIQUE(email) as the store checks it for the UPDATE
UpdateViolaUnique(tab, id, dados) ==
    /\ "email" \in Presentes(dados)
    /\ PorId(tab, id) # {}
    /\ \E v \in tab : v.id # id /\ v.email = dados["email"]

\* PUT /perfil/{id} up to the UPDATE
atualizar_perfil(r) ==
    /\ pc[r] = "idle"
    /\ \E id \in Ids, dados \in Atualizacoes :
        /\ loc' = [loc EXCEPT ![r] = [SemLoc EXCEPT !.op = "atualizar_perfil",
                                                    !.id = id, !.dados = dados]]
        /\ IF Presentes(dados) = {}
           THEN \* raised with the connection open
                /\ Fim(r, "aberta", Resposta(400, "Nenhum dado enviado para atualizar."))
                /\ UNCHANGED <<trava, tx>>
           ELSE IF Expira(r)
           THEN /\ Fim(r, "aberta", Resposta(500, "OperationalError"))
                /\ UNCHANGED <<trava, tx>>
           ELSE /\ Livre(r)
                /\ trava' = r
                /\ IF UpdateViolaUnique(idealizadores, id, dados)
                   THEN \* the statement is undone, the transaction stays open
                        /\ tx' = [ideal |-> idealizadores, habil |-> habilidades]
                        /\ Fim(r, "aberta", Resposta(500, "IntegrityError"))
                   ELSE /\ tx' = [ideal |-> Atualizada(idealizadores, id, dados),
                                  habil |-> habilidades]
                        /\ Segue(r, "atu_commit")
    /\ UNCHANGED <<idealizadores, habilidades, senhaDe>>

\* conexao.commit(); conexao.close(); return
atualizar_perfil_commit(r) ==
    /\ pc[r] = "atu_commit"
    /\ idealizadores' = tx.ideal
    /\ habilidades' = tx.habil
    /\ trava' = 0
    /\ tx' = NoTx
    /\ Fim(r, "fechada", Resposta(200, "Perfil atualizado com sucesso!"))
    /\ UNCHANGED <<loc, senhaDe>>

\* ---------------------------------------------------------------- listar_habilidades
listar_habilidades(r) ==
    /\ pc[r] = "idle"
    /\ \E id \in Ids :
        /\ loc' = [loc EXCEPT ![r] = [SemLoc EXCEPT !.op = "listar_habilidades",
                                                    !.id = id]]
        /\ Fim(r, "fechada",
               [Resposta(200, "") EXCEPT !.habilidades = NomesDe(habilidades, id)])
    /\ UNCHANGED <<idealizadores, habilidades, trava, tx, senhaDe>>

\* ---------------------------------------------------------------- salvar_habilidades
\* POST /habilidades/{id} up to the DELETE
salvar_habilidades(r) ==
    /\ pc[r] = "idle"
    /\ \E id \in Ids, lista \in Listas :
        /\ loc' = [loc EXCEPT ![r] = [SemLoc EXCEPT !.op = "salvar_habilidades",
                                                    !.id = id, !.lista = lista,
                                                    !.i = 1]]
        /\ IF Expira(r)
           THEN /\ Fim(r, "aberta", Resposta(500, "OperationalError"))
                /\ UNCHANGED <<trava, tx>>
           ELSE /\ Livre(r)
                /\ trava' = r
                /\ tx' = [ideal |-> idealizadores,
                          habil |-> SemHabilidadesDe(habilidades, id)]
                /\ Segue(r, "sal_insert")
    /\ UNCHANGED <<idealizadores, habilidades, senhaDe>>

\* mutant of salvar_habilidades_insert: a connection in autocommit mode, where
\* every INSERT is committed as it runs
salvar_habilidades_insert_autocommit(r) ==
    /\ pc[r] = "sal_insert"
    /\ loc[r].i <= Len(loc[r].lista)
    /\ tx' = [tx EXCEPT !.habil =
                 ComHabilidade(tx.habil, loc[r].id, loc[r].lista[loc[r].i])]
    /\ habilidades' = ComHabilidade(habilidades, loc[r].id, loc[r].lista[loc[r].i])
    /\ loc' = [loc EXCEPT ![r].i = loc[r].i + 1]
    /\ UNCHANGED <<idealizadores, trava, pc, conexao, resultado, senhaDe>>

\* one iteration of the INSERT loop; the statement may fail in the store
salvar_habilidades_insert(r) ==
    /\ pc[r] = "sal_insert"
    /\ loc[r].i <= Len(loc[r].lista)
    /\ \E falha \in BOOLEAN :
        IF falha
        THEN \* the exception leaves the handler: no commit, no close
             /\ Fim(r, "aberta", Resposta(500, "OperationalError"))
             /\ UNCHANGED <<tx, loc>>
        ELSE /\ tx' = [tx EXCEPT !.habil =
                          ComHabilidade(tx.habil, loc[r].id, loc[r].lista[loc[r].i])]
             /\ loc' = [loc EXCEPT ![r].i = loc[r].i + 1]
             /\ UNCHANGED <<pc, conexao, resultado>>
    /\ UNCHANGED <<idealizadores, habilidades, trava, senhaDe>>

\* conexao.commit(); conexao.close(); return
salvar_habilidades_commit(r) ==
    /\ pc[r] = "sal_insert"
    /\ loc[r].i > Len(loc[r].lista)
    /\ idealizadores' = tx.ideal
    /\ habilidades' = tx.habil
    /\ trava' = 0
    /\ tx' = NoTx
    /\ Fim(r, "fechada", Resposta(200, "Habilidades atualizadas com sucesso!"))
    /\ UNCHANGED <<loc, senhaDe>>

\* ---------------------------------------------------------------- excluir_perfil
\* DELETE /perfil/{id}: the existence SELECT
excluir_perfil(r) ==
    /\ pc[r] = "idle"
    /\ \E id \in Ids :
        /\ loc' = [loc EXCEPT ![r] = [SemLoc EXCEPT !.op = "excluir_perfil",
                                                    !.id = id]]
        /\ IF PorId(idealizadores, id) = {}
           THEN Fim(r, "fechada", Resposta(404, "Usuario nao encontrado."))
           ELSE Segue(r, "exc_habilidades")
    /\ UNCHANGED <<idealizadores, habilidades, trava, tx, senhaDe>>

\* mutant of excluir_perfil_erro: the handler commits where it should roll back
excluir_perfil_erro_commit(r) ==
    /\ trava' = IF trava = r THEN 0 ELSE trava
    /\ tx' = IF trava = r THEN NoTx ELSE tx
    /\ Fim(r, "fechada", Resposta(500, "Erro ao excluir perfil"))
    /\ idealizadores' = IF trava = r THEN tx.ideal ELSE idealizadores
    /\ habilidades' = IF trava = r THEN tx.habil ELSE habilidades

\* except Exception: conexao.rollback(), raise 500; finally: conexao.close()
excluir_perfil_erro(r) ==
    /\ trava' = IF trava = r THEN 0 ELSE trava
    /\ tx' = IF trava = r THEN NoTx ELSE tx
    /\ Fim(r, "fechada", Resposta(500, "Erro ao excluir perfil"))
    /\ UNCHANGED <<idealizadores, habilidades>>

\* DELETE FROM habilidades WHERE idealizador_id = ?
excluir_perfil_habilidades(r) ==
    /\ pc[r] = "exc_habilidades"
    /\ IF Expira(r)
       THEN excluir_perfil_erro(r)
       ELSE /\ Livre(r)
            /\ \E falha \in BOOLEAN :
                IF falha
                THEN excluir_perfil_erro(r)
                ELSE /\ trava' = r
                     /\ tx' = [ideal |-> idealizadores,
                               habil |-> SemHabilidadesDe(habilidades, loc[r].id)]
                     /\ Segue(r, "exc_idealizador")
                     /\ UNCHANGED <<idealizadores, habilidades>>
    /\ UNCHANGED <<loc, senhaDe>>

\* DELETE FROM idealizadores WHERE id = ?
excluir_perfil_idealizador(r) ==
    /\ pc[r] = "exc_idealizador"
    /\ \E falha \in BOOLEAN :
        IF falha
        THEN excluir_perfil_erro(r)
        ELSE /\ tx' = [tx EXCEPT !.ideal = tx.ideal \ PorId(tx.ideal, loc[r].id)]
             /\ Segue(r, "exc_commit")
             /\ UNCHANGED <<trava, idealizadores, habilidades>>
    /\ UNCHANGED <<loc, senhaDe>>

\* conexao.commit(); finally: close; return
excluir_perfil_commit(r) ==
    /\ pc[r] = "exc_commit"
    /\ idealizadores' = tx.ideal
    /\ habilidades' = tx.habil
    /\ trava' = 0
    /\ tx' = NoTx
    /\ Fim(r, "fechada", Resposta(200, "Perfil e habilidades excluidos com sucesso!"))
    /\ senhaDe' = [id \in Ids |-> IF PorId(tx.ideal, id) = {} THEN <<>> ELSE senhaDe[id]]
    /\ UNCHANGED <<loc>>

\* ---------------------------------------------------------------- end of a request
\* the response is sent and the handler's frame is released; a connection the
\* handler left open is closed by its finalizer, which rolls back its transaction
liberar(r) ==
    /\ pc[r] = "done"
    /\ pc' = [pc EXCEPT ![r] = "idle"]
    /\ conexao' = [conexao EXCEPT ![r] = "nenhuma"]
    /\ loc' = [loc EXCEPT ![r] = SemLoc]
    /\ resultado' = [resultado EXCEPT ![r] = SemResposta]
    /\ IF trava = r
       THEN trava' = 0 /\ tx' = NoTx
       ELSE UNCHANGED <<trava, tx>>
    /\ UNCHANGED <<idealizadores, habilidades, senhaDe>>

Next ==
    \E r \in Reqs :
        \/ cadastrar(r)
        \/ cadastrar_commit(r)
        \/ login(r)
        \/ obter_perfil(r)
        \/ obter_perfil_habilidades(r)
        \/ atualizar_perfil(r)
        \/ atualizar_perfil_commit(r)
        \/ listar_habilidades(r)
        \/ salvar_habilidades(r)
        \/ salvar_habilidades_insert(r)
        \/ salvar_habilidades_commit(r)
        \/ excluir_perfil(r)
        \/ excluir_perfil_habilidades(r)
        \/ excluir_perfil_idealizador(r)
        \/ excluir_perfil_commit(r)
        \/ liberar(r)

Spec == Init /\ [][Next]_vars

\* The handlers of the idealizadores table, with habilidades left empty
NextPerfil ==
    \E r \in Reqs :
        \/ cadastrar(r)
        \/ cadastrar_commit(r)
        \/ login(r)
        \/ obter_perfil(r)
        \/ obter_perfil_habilidades(r)
        \/ atualizar_perfil(r)
        \/ atualizar_perfil_commit(r)
        \/ excluir_perfil(r)
        \/ excluir_perfil_habilidades(r)
        \/ excluir_perfil_idealizador(r)
        \/ excluir_perfil_commit(r)
        \/ liberar(r)

SpecPerfil == Init /\ [][NextPerfil]_vars

\* The handlers of the habilidades table, with registrations of short passwords
NextHabilidades ==
    \E r \in Reqs :
        \/ cadastrar(r) /\ Len(loc'[r].senha) <= BcryptMax
                     /\ \A u \in tx'.ideal : u.senha.salt = "s1"
        \/ cadastrar_commit(r)
        \/ obter_perfil(r)
        \/ obter_perfil_habilidades(r)
        \/ listar_habilidades(r)
        \/ salvar_habilidades(r)
        \/ salvar_habilidades_insert(r)
        \/ salvar_habilidades_commit(r)
        \/ excluir_perfil(r)
        \/ excluir_perfil_habilidades(r)
        \/ excluir_perfil_idealizador(r)
        \/ excluir_perfil_commit(r)
        \/ liberar(r)

SpecHabilidades == Init /\ [][NextHabilidades]_vars

\* The handlers that write, with one salt and skill lists of at most one name
NextEscritas ==
    \E r \in Reqs :
        \/ cadastrar(r) /\ \A u \in tx'.ideal : u.senha.salt = "s1"
        \/ cadastrar_commit(r)
        \/ atualizar_perfil(r)
        \/ atualizar_perfil_commit(r)
        \/ salvar_habilidades(r) /\ Len(loc'[r].lista) <= 1
        \/ salvar_habilidades_insert(r)
        \/ salvar_habilidades_commit(r)
        \/ excluir_perfil(r)
        \/ excluir_perfil_habilidades(r)
        \/ excluir_perfil_idealizador(r)
        \/ excluir_perfil_commit(r)
        \/ liberar(r)

SpecEscritas == Init /\ [][NextEscritas]_vars

\* ---------------------------------------------------------------- claims

\* request r finishes its handler op in this step
Termina(r, op) == pc[r] # "done" /\ pc'[r] = "done" /\ loc'[r].op = op

\* request r is at done with the response of handler op
Terminou(r, op) == pc[r] = "done" /\ loc[r].op = op

\* the rows of every user but id are the same before and after the step
OutrasLinhasIguais(id) ==
    /\ {u \in idealizadores : u.id # id} = {u \in idealizadores' : u.id # id}
    /\ SelectSeq(habilidades, LAMBDA h : h.idealizador_id # id)
         = SelectSeq(habilidades', LAMBDA h : h.idealizador_id # id)

\* ---------------------------------------------------------------- C1
\* C1: in every reachable state of register, profile update, skill replace and
\* profile delete, interleaved, no two committed user rows have the same email,
\* also after profile updates that supply an email.
C1_EmailUnico ==
    \A u, v \in idealizadores : u.email = v.email => u = v

\* a profile update supplied the email of another row and was rejected, and a
\* profile update that changed an email has been committed
C1_Witness ==
    /\ \E r \in Reqs :
        /\ Terminou(r, "atualizar_perfil")
        /\ "email" \in Presentes(loc[r].dados)
        /\ resultado[r].detail = "IntegrityError"
    /\ \E u \in idealizadores : u.nome = "Zed" /\ senhaDe[u.id] = Long72
    /\ Cardinality(idealizadores) = 2

\* ---------------------------------------------------------------- C2
\* C2: register with an email that belongs to a committed row returns the
\* Conflict error (400, "E-mail ja cadastrado.") and leaves both tables as
\* they were.
C2_Conflito ==
    [][\A r \in Reqs :
          (Termina(r, "cadastrar") /\ pc[r] = "idle"
             /\ EmailDuplicado(idealizadores, loc'[r].email))
          => /\ resultado'[r] = Resposta(400, "E-mail ja cadastrado.")
             /\ idealizadores' = idealizadores
             /\ habilidades' = habilidades]_vars

\* ---------------------------------------------------------------- C3
\* C3: login(email, senha) answers NotFound iff no row has the email;
\* otherwise Unauthorized if senha is not the password the row was registered
\* with, and otherwise success with the id and name of that row.
C3_Login ==
    [][\A r \in Reqs :
          Termina(r, "login")
          => LET linhas == PorEmail(idealizadores, loc'[r].email)
                 res == resultado'[r]
             IN  /\ res.status = 404 <=> linhas = {}
                 /\ linhas # {}
                      => \E u \in linhas :
                            IF loc'[r].senha = senhaDe[u.id]
                            THEN res.status = 200 /\ res.id = u.id /\ res.nome = u.nome
                            ELSE res.status = 401]_vars

\* ---------------------------------------------------------------- C4
\* C4: when a profile delete of U commits, the skill list of U is empty and the
\* profile of U is not found, and no row of another user is removed from either
\* table.
C4_ExcluiTudoDeU ==
    [][\A r \in Reqs :
          (Termina(r, "excluir_perfil") /\ resultado'[r].status = 200)
          => /\ NomesDe(habilidades', loc[r].id) = <<>>
             /\ PorId(idealizadores', loc[r].id) = {}
             /\ OutrasLinhasIguais(loc[r].id)]_vars

\* a delete of a user with two skills is about to commit while the other user
\* has skills too
C4_Witness ==
    \E r \in Reqs :
        /\ pc[r] = "exc_commit"
        /\ Len(NomesDe(habilidades, loc[r].id)) = 2
        /\ NomesDe(tx.habil, loc[r].id) = <<>>
        /\ \E u \in idealizadores : u.id # loc[r].id /\ NomesDe(habilidades, u.id) # <<>>

\* ---------------------------------------------------------------- C5
\* C5: profile delete is all-or-nothing: a step of the handler that is not its
\* commit leaves the committed tables as they are, and when one of the two
\* deletes fails the handler answers ServerError with its transaction rolled
\* back (no lock, no pending change, connection closed).
C5_TudoOuNada ==
    [][\A r \in Reqs :
          (pc[r] # pc'[r] /\ loc'[r].op = "excluir_perfil")
          => IF pc[r] = "exc_commit"
             THEN /\ PorId(idealizadores', loc[r].id) = {}
                  /\ NomesDe(habilidades', loc[r].id) = <<>>
             ELSE /\ idealizadores' = idealizadores
                  /\ habilidades' = habilidades
                  /\ (pc[r] \in {"exc_habilidades", "exc_idealizador"} /\ pc'[r] = "done")
                       => /\ resultado'[r].status = 500
                          /\ trava' # r
                          /\ conexao'[r] = "fechada"]_vars

\* the delete of the user row failed after the user's skills were deleted in
\* the transaction: the user and its skills are still committed
C5_Witness ==
    \E r \in Reqs :
        /\ Terminou(r, "excluir_perfil")
        /\ resultado[r].status = 500
        /\ PorId(idealizadores, loc[r].id) # {}
        /\ Len(NomesDe(habilidades, loc[r].id)) = 2

\* ---------------------------------------------------------------- C6
\* C6: when a replace skills of U with list L commits, the skill list of U is
\* exactly L (order and duplicates kept, nothing of the old list) and the rows
\* of every other user are unchanged.
C6_Substitui ==
    [][\A r \in Reqs :
          (Termina(r, "salvar_habilidades") /\ resultado'[r].status = 200)
          => /\ NomesDe(habilidades', loc[r].id) = loc[r].lista
             /\ OutrasLinhasIguais(loc[r].id)
             /\ idealizadores' = idealizadores]_vars

\* a replace committed an ordered list over an older list, with skills of the
\* other id present
C6_Witness ==
    \E r \in Reqs :
        /\ Terminou(r, "salvar_habilidades")
        /\ resultado[r].status = 200
        /\ loc[r].lista = <<"js", "py">>
        /\ NomesDe(habilidades, loc[r].id) = <<"js", "py">>
        /\ \E id \in Ids : id # loc[r].id /\ NomesDe(habilidades, id) = <<"py", "py">>

\* ---------------------------------------------------------------- C7
\* C7: replace skills is atomic: the committed skill list of a user changes
\* only in the commit of a replace (to the complete new list) or of a delete
\* (to the empty list); a replace whose insert fails leaves the committed
\* tables as they were; and list skills and get profile return a committed
\* list.
C7_Atomico ==
    [][/\ \A id \in Ids :
            NomesDe(habilidades', id) # NomesDe(habilidades, id)
            => \E r \in Reqs :
                  /\ loc[r].id = id
                  /\ pc'[r] = "done"
                  /\ resultado'[r].status = 200
                  /\ \/ pc[r] = "sal_insert" /\ NomesDe(habilidades', id) = loc[r].lista
                     \/ pc[r] = "exc_commit" /\ NomesDe(habilidades', id) = <<>>
       /\ \A r \in Reqs :
            /\ (Termina(r, "salvar_habilidades") /\ resultado'[r].status # 200)
                 => habilidades' = habilidades
            /\ (Termina(r, "listar_habilidades")
                  \/ (Termina(r, "obter_perfil") /\ resultado'[r].status = 200))
                 => resultado'[r].habilidades = NomesDe(habilidades, loc'[r].id)]_vars

\* an insert failed after the delete and a first insert: the transaction of the
\* replace holds a partial list while the old list is committed
C7_Witness ==
    \E r \in Reqs :
        /\ Terminou(r, "salvar_habilidades")
        /\ resultado[r].status = 500
        /\ trava = r
        /\ loc[r].i = 2
        /\ Len(NomesDe(tx.habil, loc[r].id)) = 1
        /\ Len(NomesDe(habilidades, loc[r].id)) = 2

\* ---------------------------------------------------------------- C8
\* C8 as stated: a profile update of U with a non-empty set F of present
\* fields sets exactly the fields F of U's row and changes nothing else.
AtualizaExatamente(r) ==
    LET id == loc'[r].id
        dados == loc'[r].dados
    IN  /\ {u.id : u \in idealizadores'} = {u.id : u \in idealizadores}
        /\ Cardinality(idealizadores') = Cardinality(idealizadores)
        /\ \A u \in idealizadores :
              \E v \in idealizadores' :
                 /\ v.id = u.id
                 /\ u.id # id => v = u
                 /\ u.id = id
                      => \A c \in DOMAIN u :
                            v[c] = IF c \in Presentes(dados) THEN dados[c] ELSE u[c]
        /\ habilidades' = habilidades

C9_ConexaoFechada ==
    \A r \in Reqs : pc[r] = "done" => conexao[r] = "fechada"

\* ---------------------------------------------------------------- C10
\* C10: every committed skill row names the id of a committed user row.
C10_SemOrfas ==
    \A k \in 1..Len(habilidades) :
        PorId(idealizadores, habilidades[k].idealizador_id) # {}

====
